---- MODULE Spec2Model ----
(***************************************************************************)
(* Model of streamlit_dashboard.py: the Kallanish workbook parser, the     *)
(* loaders that merge the parsed series across files, the merge in main,   *)
(* and the removable headline list kept in the session state.              *)
(*                                                                         *)
(* Cells of a sheet are records [t, s, n]: t is the kind of the value      *)
(* pandas hands back ("nan", "str", "num", "date"), s the text of a        *)
(* string cell as a sequence of one-character strings, n the number of a   *)
(* numeric cell or the day yyyymmdd of a date cell.                        *)
(***************************************************************************)
EXTENDS Integers, Sequences, FiniteSets, TLC

\* ------------------------------------------------------------------ bounds
MaxNames  == 2   \* name cells above the marker row (header rows x triples)
MaxQuotes == 2   \* quotes below the marker row (data rows x triples)
MaxCols   == 7   \* columns of a sheet (column 0 and two triples)
MaxLocal  == 2   \* files in the data directory
MaxUpload == 2   \* uploaded files
MaxRemovals == 2 \* delete buttons pressed in a session
MaxShift  == 1   \* articles published during a session

\* ------------------------------------------------------- program constants
FallbackDatesRow == 9
TripleWidth      == 3
limit            == 50
display_count    == 20
FallbackRate     == 100   \* 1.0, rates being counted in hundredths

\* ------------------------------------------------------------------- cells
NaN     == [t |-> "nan", s |-> <<>>, n |-> 0]
Str(s)  == [t |-> "str", s |-> s, n |-> 0]
Num(n)  == [t |-> "num", s |-> <<>>, n |-> n]
Date(n) == [t |-> "date", s |-> <<>>, n |-> n]

isna(c) == c.t = "nan"

DatesLiteral == <<"D", "a", "t", "e", "s">>

DigitChar == <<"0", "1", "2", "3", "4", "5", "6", "7", "8", "9">>

IsDigit(ch) == \E i \in 1..10 : DigitChar[i] = ch

DigitVal(ch) == (CHOOSE i \in 1..10 : DigitChar[i] = ch) - 1

RECURSIVE ParseInt(_)
ParseInt(s) ==
    IF s = <<>> THEN 0
    ELSE 10 * ParseInt(SubSeq(s, 1, Len(s) - 1)) + DigitVal(s[Len(s)])

AllDigits(s) == s # <<>> /\ \A i \in 1..Len(s) : IsDigit(s[i])

RECURSIVE Digits(_)
Digits(n) ==
    IF n < 10 THEN <<DigitChar[n + 1]>>
    ELSE Digits(n \div 10) \o <<DigitChar[(n % 10) + 1]>>

RECURSIVE lstrip(_)
lstrip(s) == IF s # <<>> /\ s[1] = " " THEN lstrip(Tail(s)) ELSE s

RECURSIVE rstrip(_)
rstrip(s) ==
    IF s # <<>> /\ s[Len(s)] = " " THEN rstrip(SubSeq(s, 1, Len(s) - 1)) ELSE s

strip(s) == rstrip(lstrip(s))

\* str(name): the text Python prints for the value of a cell
PyStr(c) ==
    CASE c.t = "str"  -> c.s
      [] c.t = "nan"  -> <<"n", "a", "n">>
      [] c.t = "num"  -> Digits(c.n)
      [] c.t = "date" -> Digits(c.n)

\* pd.to_numeric(errors="coerce") on one cell: a number, or a text that is a
\* run of digits (blanks around it allowed); anything else becomes NaN
to_numeric(c) ==
    CASE c.t = "num" -> c
      [] c.t = "nan" -> NaN
      [] c.t = "str" -> IF AllDigits(strip(c.s)) THEN Num(ParseInt(strip(c.s))) ELSE NaN
      [] c.t = "date" -> NaN

\* text of the form yyyy-mm-dd
IsIsoDate(s) ==
    /\ Len(s) = 10
    /\ s[5] = "-" /\ s[8] = "-"
    /\ \A i \in {1, 2, 3, 4, 6, 7, 9, 10} : IsDigit(s[i])
    /\ ParseInt(SubSeq(s, 6, 7)) \in 1..12
    /\ ParseInt(SubSeq(s, 9, 10)) \in 1..31

IsoDay(s) ==
    10000 * ParseInt(SubSeq(s, 1, 4)) + 100 * ParseInt(SubSeq(s, 6, 7))
        + ParseInt(SubSeq(s, 9, 10))

\* pd.to_datetime(errors="coerce") on one cell of the date column
to_datetime(c) ==
    CASE c.t = "date" -> c
      [] c.t = "nan"  -> NaN
      [] c.t = "str"  -> IF IsIsoDate(c.s) THEN Date(IsoDay(c.s)) ELSE NaN
      [] c.t = "num"  -> Date(19700101)

\* ---------------------------------------------------------------- workbooks
\* A workbook is what pd.read_excel(sheet_name="Price Series", header=None)
\* gives: readable = FALSE when the file cannot be opened or has no such
\* sheet; otherwise a grid of nrows x ncols cells, rows and columns counted
\* from 0 as in the source.  name is the file name without its extension.
EmptyMap == [x \in {} |-> <<>>]

RowOk(df, r) == r >= -df.nrows /\ r < df.nrows

iat(df, r, c) == df.cells[(IF r < 0 THEN r + df.nrows ELSE r) + 1][c + 1]

MarkerRows(df) ==
    IF df.ncols = 0 THEN {}
    ELSE {r \in 0..(df.nrows - 1) : iat(df, r, 0) = Str(DatesLiteral)}

HasMarker(df) == df.readable /\ MarkerRows(df) # {}

FirstMarker(df) == CHOOSE r \in MarkerRows(df) : \A q \in MarkerRows(df) : r <= q

\* lines 236-240
dates_row(df) == IF MarkerRows(df) = {} THEN FallbackDatesRow ELSE FirstMarker(df)

\* lines 257-260
RECURSIVE ScanUp(_, _, _, _)
ScanUp(df, tmp_row, col, name) ==
    IF tmp_row >= 0 /\ isna(name)
    THEN ScanUp(df, tmp_row - 1, col,
                IF tmp_row - 1 >= 0 THEN iat(df, tmp_row - 1, col) ELSE Str(<<>>))
    ELSE name

\* lines 253-261
ResolveName(df, product_row, col) ==
    LET cell == iat(df, product_row, col)
        name == IF isna(cell) THEN ScanUp(df, product_row, col, cell) ELSE cell
    IN  strip(PyStr(name))

NotNa(row) == ~isna(row.Date) /\ ~isna(row.Price)

\* dropna() over whole rows instead of the two columns of the group
ExtractRowsWholeRow(df, start_idx, c0, c1) ==
    LET keep == {r \in start_idx..(df.nrows - 1) :
                    \A c \in 0..(df.ncols - 1) : ~isna(iat(df, r, c))}
        raw  == [i \in 1..(df.nrows - start_idx) |->
                    [Date |-> IF (start_idx + i - 1) \in keep
                              THEN iat(df, start_idx + i - 1, c0) ELSE NaN,
                     Price |-> iat(df, start_idx + i - 1, c1)]]
        d1   == SelectSeq(raw, NotNa)
        conv == [i \in 1..Len(d1) |->
                    [Date |-> to_datetime(d1[i].Date), Price |-> to_numeric(d1[i].Price)]]
        d2   == SelectSeq(conv, NotNa)
    IN  [i \in 1..Len(d2) |-> [Date |-> d2[i].Date.n, Price |-> d2[i].Price.n]]

\* lines 265-272, for the date column c0 and the price column c1
ExtractRows(df, start_idx, c0, c1) ==
    LET raw  == [i \in 1..(df.nrows - start_idx) |->
                    [Date |-> iat(df, start_idx + i - 1, c0),
                     Price |-> iat(df, start_idx + i - 1, c1)]]
        d1   == SelectSeq(raw, NotNa)
        conv == [i \in 1..Len(d1) |->
                    [Date |-> to_datetime(d1[i].Date), Price |-> to_numeric(d1[i].Price)]]
        d2   == SelectSeq(conv, NotNa)
    IN  [i \in 1..Len(d2) |-> [Date |-> d2[i].Date.n, Price |-> d2[i].Price.n]]

\* lines 251-276: the loop over the column triples, from column col on
RECURSIVE ParseLoop(_, _, _)
ParseLoop(df, col, products) ==
    IF col + 2 < df.ncols
    THEN IF ~RowOk(df, dates_row(df) - 1)
         THEN [raised |-> TRUE, products |-> EmptyMap]
         ELSE LET name == ResolveName(df, dates_row(df) - 1, col)
                  data == ExtractRows(df, dates_row(df) + 1, 0, col + 2)
              IN  ParseLoop(df, col + TripleWidth,
                            IF name # <<>> THEN (name :> data) @@ products ELSE products)
    ELSE [raised |-> FALSE, products |-> products]

\* the parser without the try/except around pd.read_excel
parse_without_try(df) ==
    IF ~df.readable THEN [raised |-> TRUE, products |-> EmptyMap]
    ELSE ParseLoop(df, 1, EmptyMap)

\* lines 227-277
parse_kallanish_workbook(df) ==
    IF ~df.readable THEN [raised |-> FALSE, products |-> EmptyMap]
    ELSE ParseLoop(df, 1, EmptyMap)

\* the fallback reading the second column after the dates instead of the first
UploadFallbackNextCol(df) ==
    IF df.readable /\ MarkerRows(df) # {} /\ df.ncols >= 3
    THEN (df.name :> ExtractRows(df, FirstMarker(df) + 1, 0, 2))
    ELSE EmptyMap

\* lines 332-352: what one uploaded file contributes
UploadFallback(df) ==
    IF df.readable /\ MarkerRows(df) # {} /\ df.ncols >= 2
    THEN (df.name :> ExtractRows(df, FirstMarker(df) + 1, 0, 1))
    ELSE EmptyMap

upload_file_series(df) ==
    LET r  == parse_kallanish_workbook(df)
        fs == IF r.raised THEN EmptyMap ELSE r.products
    IN  IF DOMAIN fs = {} THEN UploadFallback(df) ELSE fs

\* ------------------------------------------------------- generated workbooks
\* Sheets in the vendor's layout: header rows carrying the product names in
\* the first column of each triple, one marker row, data rows whose triples
\* hold (Low, High, Avg) = (quote - 1, quote + 1, quote) for a numeric quote
\* and three times the same cell otherwise.  The columns of a trailing
\* partial triple are blank in the header rows and continue the last quote
\* in the data rows.
NQuotes(ncols) ==
    IF ncols < 2 THEN 0
    ELSE IF ncols < 1 + TripleWidth THEN 1 ELSE (ncols - 1) \div TripleWidth

QuoteOf(c, ncols) ==
    IF ((c - 2) \div TripleWidth) + 1 > NQuotes(ncols) THEN NQuotes(ncols)
    ELSE ((c - 2) \div TripleWidth) + 1

HdrRange(ncols) ==
    0..(IF NQuotes(ncols) = 0 THEN MaxNames ELSE MaxNames \div NQuotes(ncols))

DataRange(ncols) ==
    0..(IF NQuotes(ncols) = 0 THEN MaxQuotes ELSE MaxQuotes \div NQuotes(ncols))

HdrCells == {NaN, Str(<<"A">>), Str(<<"B", " ">>), Str(<<" ">>)}

DateCells ==
    {NaN, Date(20240101),
     Str(<<"2", "0", "2", "4", "-", "0", "1", "-", "0", "8">>),
     Str(<<"n", "/", "a">>)}

PriceCells == {NaN, Num(10), Str(<<"1", ",", "2">>)}

MarkerCells == {Str(DatesLiteral), Str(<<"D", "a", "t", "e">>)}

Labels == <<Str(<<"L", "o", "w">>), Str(<<"H", "i", "g", "h">>), Str(<<"A", "v", "g">>)>>

HeaderRow(names, ncols) ==
    [c \in 1..ncols |->
        IF c >= 2 /\ (c - 2) % TripleWidth = 0
                  /\ ((c - 2) \div TripleWidth) + 1 <= NQuotes(ncols)
        THEN names[((c - 2) \div TripleWidth) + 1] ELSE NaN]

MarkerRow(marker, ncols) ==
    [c \in 1..ncols |-> IF c = 1 THEN marker ELSE Labels[((c - 2) % TripleWidth) + 1]]

TripleCell(q, k) ==
    IF q.t = "num" THEN Num(CASE k = 0 -> q.n - 1 [] k = 1 -> q.n + 1 [] k = 2 -> q.n)
    ELSE q

DataRow(d, ncols) ==
    [c \in 1..ncols |->
        IF c = 1 THEN d.date
        ELSE TripleCell(d.quote[QuoteOf(c, ncols)], (c - 2) % TripleWidth)]

Workbook(fname, ncols, hdr, marker, data) ==
    [readable |-> TRUE, name |-> fname,
     nrows |-> Len(hdr) + 1 + Len(data), ncols |-> ncols,
     cells |-> [i \in 1..Len(hdr) |-> HeaderRow(hdr[i], ncols)]
               \o <<MarkerRow(marker, ncols)>>
               \o [i \in 1..Len(data) |-> DataRow(data[i], ncols)]]

NoSheet(fname) ==
    [readable |-> FALSE, name |-> fname, nrows |-> 0, ncols |-> 0, cells |-> <<>>]

EmptySheet(fname) ==
    [readable |-> TRUE, name |-> fname, nrows |-> 0, ncols |-> 0, cells |-> <<>>]

FileName == <<"f">>

\* -------------------------------------------------------------- merging
\* pd.concat([a, b])
concat(a, b) == a \o b

\* drop_duplicates(subset=["Date"], keep="first")
RECURSIVE drop_duplicates_first(_)
drop_duplicates_first(s) ==
    IF s = <<>> THEN <<>>
    ELSE IF \E j \in 1..(Len(s) - 1) : s[j].Date = s[Len(s)].Date
         THEN drop_duplicates_first(SubSeq(s, 1, Len(s) - 1))
         ELSE drop_duplicates_first(SubSeq(s, 1, Len(s) - 1)) \o <<s[Len(s)]>>

\* drop_duplicates(subset=["Date"], keep="last")
RECURSIVE drop_duplicates_last(_)
drop_duplicates_last(s) ==
    IF s = <<>> THEN <<>>
    ELSE IF \E j \in 2..Len(s) : s[j].Date = s[1].Date
         THEN drop_duplicates_last(Tail(s))
         ELSE <<s[1]>> \o drop_duplicates_last(Tail(s))

IsSorted(s) == \A i \in 1..(Len(s) - 1) : s[i].Date <= s[i + 1].Date

\* sort_values("Date"): the default sort is not stable, rows of equal date
\* may come out in any order
sort_values(s) ==
    {t \in {[i \in 1..Len(s) |-> s[p[i]]] : p \in Permutations(1..Len(s))} : IsSorted(t)}

\* lines 302-309, 355-360, 467-472: what one name may hold after the series
\* df of a source has been merged into the mapping acc
MergedChoices(acc, name, df) ==
    IF name \in DOMAIN acc
    THEN sort_values(drop_duplicates_last(concat(acc[name], df)))
    ELSE sort_values(df)

\* the loop over the items of a source mapping fs
MergeInto(acc, fs) ==
    {f \in [DOMAIN acc \cup DOMAIN fs ->
               UNION {MergedChoices(acc, n, fs[n]) : n \in DOMAIN fs}
                   \cup {acc[n] : n \in DOMAIN acc}] :
        \A n \in DOMAIN f :
            IF n \in DOMAIN fs THEN f[n] \in MergedChoices(acc, n, fs[n])
            ELSE f[n] = acc[n]}

\* ---------------------------------------------------------- exchange rate
\* What requests.get(url, timeout=10) meets: net = "error" when no response
\* arrives (connection error, timeout), otherwise the HTTP status and the
\* body.  A body is json = FALSE (not JSON), or a JSON value: an object
\* (object = TRUE) with or without the members "rates" and
\* "time_last_update_utc", or something else.  usd is the cell of
\* rates["USD"] (usd_present = FALSE when rates has no such member), a rate
\* being counted in hundredths.  A time text is the sequence of its
\* blank-separated words.
GoodTime == <<"Thu,", "07", "Aug", "2025", "00:03:03", "+0000">>

TimeCells ==
    {Str(GoodTime),
     Str(<<"Thu,", "07", "Aug", "2025", "00:03:03", "GMT">>),
     Str(<<"2025-08-07T00:03:03Z">>),
     Str(<<>>), NaN, Num(1754524983)}

UsdCells == {Num(116), Str(<<"1", "1", "6">>), Str(<<"n", "/", "a">>), NaN}

Bodies ==
    {[json |-> FALSE, object |-> FALSE, has_rates |-> FALSE, usd_present |-> FALSE,
      usd |-> NaN, has_time |-> FALSE, time |-> NaN],
     [json |-> TRUE, object |-> FALSE, has_rates |-> FALSE, usd_present |-> FALSE,
      usd |-> NaN, has_time |-> FALSE, time |-> NaN]}
    \cup {[json |-> TRUE, object |-> TRUE, has_rates |-> FALSE, usd_present |-> FALSE,
           usd |-> NaN, has_time |-> ht, time |-> IF ht THEN Str(GoodTime) ELSE NaN] :
             ht \in BOOLEAN}
    \cup {[json |-> TRUE, object |-> TRUE, has_rates |-> TRUE, usd_present |-> FALSE,
           usd |-> NaN, has_time |-> TRUE, time |-> t] : t \in TimeCells}
    \cup {[json |-> TRUE, object |-> TRUE, has_rates |-> TRUE, usd_present |-> TRUE,
           usd |-> u, has_time |-> TRUE, time |-> t] : u \in UsdCells, t \in TimeCells}
    \cup {[json |-> TRUE, object |-> TRUE, has_rates |-> TRUE, usd_present |-> TRUE,
           usd |-> u, has_time |-> FALSE, time |-> NaN] : u \in UsdCells}

Statuses == {200, 404, 500}

Responses ==
    {[net |-> "error", status |-> 0, body |-> b] : b \in {CHOOSE x \in Bodies : ~x.json}}
    \cup {[net |-> "ok", status |-> st, body |-> b] : st \in Statuses, b \in Bodies}

NoResponse == [net |-> "none", status |-> 0, body |-> CHOOSE x \in Bodies : ~x.json]

\* float(x): a number, or a text that is a run of digits (blanks around it
\* allowed); anything else, None included, raises
FloatOk(c) == c.t = "num" \/ (c.t = "str" /\ AllDigits(strip(c.s)))

Float(c) == IF c.t = "num" THEN c.n ELSE ParseInt(strip(c.s))

MonthNumber(w) ==
    CASE w = "Jan" -> "01" [] w = "Feb" -> "02" [] w = "Mar" -> "03" [] w = "Apr" -> "04"
      [] w = "May" -> "05" [] w = "Jun" -> "06" [] w = "Jul" -> "07" [] w = "Aug" -> "08"
      [] w = "Sep" -> "09" [] w = "Oct" -> "10" [] w = "Nov" -> "11" [] w = "Dec" -> "12"
      [] OTHER -> ""

DayNames == {"Mon,", "Tue,", "Wed,", "Thu,", "Fri,", "Sat,", "Sun,"}
DayWords == {"07"}
YearWords == {"2025"}
ClockWords == {"00:03:03"}
OffsetWords == {"+0000"}

\* timestamp.split(" +")[0]: the words before the first one that starts
\* with "+"
RECURSIVE BeforePlus(_)
BeforePlus(ws) ==
    IF ws = <<>> \/ ws[1] \in OffsetWords THEN <<>>
    ELSE <<ws[1]>> \o BeforePlus(Tail(ws))

\* strptime(..., "%a, %d %b %Y %H:%M:%S") accepts the words
StrptimeOk(ws) ==
    /\ Len(ws) = 5
    /\ ws[1] \in DayNames /\ ws[2] \in DayWords /\ MonthNumber(ws[3]) # ""
    /\ ws[4] \in YearWords /\ ws[5] \in ClockWords

\* .date().isoformat()
IsoFormat(ws) == <<ws[4], "-", MonthNumber(ws[3]), "-", ws[2]>>

\* truth value of data.get("time_last_update_utc", "")
Truthy(c) ==
    CASE c.t = "nan" -> FALSE
      [] c.t = "str" -> c.s # <<>>
      [] c.t = "num" -> c.n # 0
      [] c.t = "date" -> TRUE

\* lines 86-95
date_part(body) ==
    IF body.has_time /\ Truthy(body.time) /\ body.time.t = "str"
                     /\ StrptimeOk(BeforePlus(body.time.s))
    THEN IsoFormat(BeforePlus(body.time.s))
    ELSE <<>>

\* the outer try of lines 80-96 runs to its return statement
NoException(resp) ==
    /\ resp.net = "ok"
    /\ resp.status < 400
    /\ resp.body.json /\ resp.body.object /\ resp.body.has_rates
    /\ (resp.body.usd_present => FloatOk(resp.body.usd))

\* lines 79-98
fetch_exchange_rate(resp) ==
    IF NoException(resp)
    THEN [rate |-> IF resp.body.usd_present THEN Float(resp.body.usd) ELSE FallbackRate,
          date |-> date_part(resp.body)]
    ELSE [rate |-> FallbackRate, date |-> <<>>]

\* lines 133-181: the prices quoted in EUR, in tenths, and their conversion
EurPrices == <<2965, 3200, 5450, 5275, 5000>>

assemble_latest_prices(rate) == [i \in 1..Len(EurPrices) |-> EurPrices[i] * rate]

\* --------------------------------------------------------------------- state
VARIABLES
    pc,               \* position of the render pass
    df,               \* the sheet of the file being read
    file_series,      \* what that file contributed
    raised,           \* parse_kallanish_workbook raised
    local_series,     \* series of load_local_price_series
    uploaded_series,  \* series of load_uploaded_series
    all_series,       \* all_series of main
    nlocal, nupload,  \* files read so far from data/ and from the uploader
    sources,          \* the mappings contributed so far, in merge order
    headlines,        \* what fetch_gmk_headlines returned in the last run
    removed,          \* st.session_state['removed_headlines']
    to_display,       \* the headlines the last run has put on the page
    response,         \* what the exchange-rate service answers in this render
    eur_usd,          \* eur_usd of main, in hundredths
    rate_date,        \* rate_date of main
    warned,           \* the fallback warning is on the page
    price_usd         \* Price_USD of the rows quoted in EUR

vars == <<pc, df, file_series, raised, local_series, uploaded_series, all_series,
          nlocal, nupload, sources, headlines, removed, to_display,
          response, eur_usd, rate_date, warned, price_usd>>

ratevars == <<response, eur_usd, rate_date, warned, price_usd>>

RateIdle ==
    /\ response = NoResponse
    /\ eur_usd = 0 /\ rate_date = <<>> /\ warned = FALSE /\ price_usd = <<>>

newsvars == <<headlines, removed, to_display>>

loadvars == <<local_series, uploaded_series, all_series, nlocal, nupload, sources>>

seriesvars == <<df, file_series, raised, loadvars>>

\* ---------------------------------------------- the parser on every workbook
InitParse ==
    /\ pc = "file"
    /\ file_series = EmptyMap
    /\ raised = FALSE
    /\ local_series = EmptyMap /\ uploaded_series = EmptyMap /\ all_series = EmptyMap
    /\ nlocal = 0 /\ nupload = 0 /\ sources = <<>>
    /\ headlines = <<>> /\ removed = {} /\ to_display = <<>>
    /\ RateIdle
    /\ \/ df \in {NoSheet(FileName), EmptySheet(FileName)}
       \/ \E ncols \in 1..MaxCols, marker \in MarkerCells :
            \E h \in HdrRange(ncols), d \in DataRange(ncols) :
               \E hdr \in [1..h -> [1..NQuotes(ncols) -> HdrCells]],
                  data \in [1..d -> [date : DateCells,
                                     quote : [1..NQuotes(ncols) -> PriceCells]]] :
                    df = Workbook(FileName, ncols, hdr, marker, data)

\* load_local_price_series, line 300: the call on a file of the directory
ParseLocalFile ==
    /\ pc = "file"
    /\ pc' = "local"
    /\ file_series' = parse_kallanish_workbook(df).products
    /\ raised' = parse_kallanish_workbook(df).raised
    /\ UNCHANGED <<df, loadvars, newsvars, ratevars>>

\* load_uploaded_series, lines 331-352: the same file supplied as an upload
ParseUploadedFile ==
    /\ pc = "file"
    /\ pc' = "upload"
    /\ file_series' = upload_file_series(df)
    /\ raised' = FALSE
    /\ UNCHANGED <<df, loadvars, newsvars, ratevars>>

NextParse == ParseLocalFile \/ ParseUploadedFile

SpecParse == InitParse /\ [][NextParse]_vars

\* ------------------------------------------------------------ one render
\* The files a render may find.  The k-th file read quotes 10k (and 10k+1):
\* the source of every price of a merged series can be told from the price.
D1 == Date(20240101)
S8 == Str(<<"2", "0", "2", "4", "-", "0", "1", "-", "0", "8">>)
NameA == Str(<<"A">>)
NameB == Str(<<"B", " ">>)

Quote(dt, p) == [date |-> dt, quote |-> <<Num(p)>>]

FilesAt(k) ==
    LET p == 10 * k
        rows == {<<>>, <<Quote(D1, p)>>, <<Quote(S8, p)>>,
                 <<Quote(S8, p), Quote(D1, p)>>, <<Quote(D1, p), Quote(D1, p + 1)>>}
    IN  {NoSheet(FileName)}
        \cup {Workbook(FileName, 1 + TripleWidth, <<<<NameA>>>>, Str(DatesLiteral), r) :
                 r \in rows}
        \cup {Workbook(FileName, 1 + TripleWidth, <<<<NameB>>>>, Str(DatesLiteral),
                       <<Quote(D1, p)>>),
              Workbook(FileName, TripleWidth, <<<<NameA>>>>, Str(DatesLiteral),
                       <<Quote(D1, p), Quote(D1, p + 1)>>),
              Workbook(FileName, 1 + 2 * TripleWidth, <<<<NameA, NameA>>>>, Str(DatesLiteral),
                       <<[date |-> D1, quote |-> <<NaN, Num(p)>>]>>),
              Workbook(FileName, 1 + TripleWidth, <<<<NameA>>>>, Str(<<"D", "a", "t", "e">>),
                       <<Quote(D1, p)>>)}

Init ==
    /\ pc = "load_local"
    /\ df = NoSheet(FileName)
    /\ file_series = EmptyMap
    /\ raised = FALSE
    /\ local_series = EmptyMap /\ uploaded_series = EmptyMap /\ all_series = EmptyMap
    /\ nlocal = 0 /\ nupload = 0 /\ sources = <<>>
    /\ headlines = <<>> /\ removed = {} /\ to_display = <<>>
    /\ RateIdle

\* lines 299-309: one file of data/*.xlsx
LoadLocalFile ==
    /\ pc = "load_local"
    /\ nlocal < MaxLocal
    /\ \E wb \in FilesAt(nlocal + 1) :
         LET r == parse_kallanish_workbook(wb) IN
         /\ df' = wb
         /\ raised' = r.raised
         /\ file_series' = r.products
         /\ nlocal' = nlocal + 1
         /\ IF r.raised
            THEN /\ pc' = "crashed"
                 /\ UNCHANGED <<local_series, sources>>
            ELSE /\ pc' = "load_local"
                 /\ local_series' \in MergeInto(local_series, r.products)
                 /\ sources' = Append(sources, r.products)
    /\ UNCHANGED <<uploaded_series, all_series, nupload, newsvars, ratevars>>

\* line 310: the directory is exhausted
LocalDone ==
    /\ pc = "load_local"
    /\ pc' = "load_uploaded"
    /\ UNCHANGED <<df, file_series, raised, loadvars, newsvars, ratevars>>

\* lines 329-360: one uploaded file
LoadUploadedFile ==
    /\ pc = "load_uploaded"
    /\ nupload < MaxUpload
    /\ \E wb \in FilesAt(nlocal + nupload + 1) :
         /\ df' = wb
         /\ raised' = FALSE
         /\ file_series' = upload_file_series(wb)
         /\ nupload' = nupload + 1
         /\ uploaded_series' \in MergeInto(uploaded_series, upload_file_series(wb))
         /\ sources' = Append(sources, upload_file_series(wb))
    /\ UNCHANGED <<pc, local_series, all_series, nlocal, newsvars, ratevars>>

\* lines 361, 465-472: the uploads are exhausted, main merges them into the
\* local series
MergeMain ==
    /\ pc = "load_uploaded"
    /\ pc' = "chart"
    /\ all_series' \in MergeInto(local_series, uploaded_series)
    /\ UNCHANGED <<df, file_series, raised, local_series, uploaded_series,
                   nlocal, nupload, sources, newsvars, ratevars>>

Next == LoadLocalFile \/ LocalDone \/ LoadUploadedFile \/ MergeMain

Spec == Init /\ [][Next]_vars

\* ------------------------------------------------------------- headlines
\* The feed holds consecutive articles, newest first; some articles carry a
\* blank title.  An item is the pair of texts of its <title> and <link>.
Untitled == {3}

Article(a) ==
    [title |-> IF a \in Untitled THEN <<" ">> ELSE <<"T">> \o Digits(a),
     link  |-> <<"/">> \o Digits(a) \o <<" ">>]

FeedLengths == {0, display_count - 1, display_count + 2, limit + 2}

Feeds ==
    {[i \in 1..len |-> Article(start + i - 1)] :
        start \in 1..(MaxShift + 1), len \in FeedLengths}

Stripped(item) == [title |-> strip(item.title), link |-> strip(item.link)]

HasTitleAndLink(h) == h.title # <<>> /\ h.link # <<>>

FirstItems(sq, n) == SubSeq(sq, 1, IF Len(sq) < n THEN Len(sq) ELSE n)

\* lines 383-397, on the items of a feed that could be read
fetch_gmk_headlines(feed, lim) ==
    SelectSeq([i \in 1..Len(FirstItems(feed, lim)) |-> Stripped(feed[i])], HasTitleAndLink)

\* the filter taking the title for the key of the removed set
DisplayedByTitle(hs, rem) ==
    LET keep == {i \in 1..Len(hs) : hs[i].title \notin rem}
        RECURSIVE Pick(_)
        Pick(i) == IF i > Len(hs) THEN <<>>
                   ELSE (IF i \in keep THEN <<hs[i]>> ELSE <<>>) \o Pick(i + 1)
    IN  FirstItems(Pick(1), display_count)

\* the first display_count headlines cut off before the removed ones are
\* filtered out
DisplayedCutFirst(hs, rem) ==
    LET keep == {i \in 1..Len(FirstItems(hs, display_count)) : hs[i].link \notin rem}
        RECURSIVE Pick(_)
        Pick(i) == IF i > Len(FirstItems(hs, display_count)) THEN <<>>
                   ELSE (IF i \in keep THEN <<hs[i]>> ELSE <<>>) \o Pick(i + 1)
    IN  Pick(1)

\* lines 503-506
Displayed(hs, rem) ==
    LET keep == {i \in 1..Len(hs) : hs[i].link \notin rem}
        RECURSIVE Pick(_)
        Pick(i) == IF i > Len(hs) THEN <<>>
                   ELSE (IF i \in keep THEN <<hs[i]>> ELSE <<>>) \o Pick(i + 1)
    IN  FirstItems(Pick(1), display_count)

Links(sq) == {sq[i].link : i \in 1..Len(sq)}

\* the rows written before the pressed button is reached
UpTo(sq, link) ==
    SubSeq(sq, 1, CHOOSE k \in 1..Len(sq) : sq[k].link = link)

InitNews ==
    /\ pc = "run"
    /\ df = NoSheet(FileName)
    /\ file_series = EmptyMap
    /\ raised = FALSE
    /\ local_series = EmptyMap /\ uploaded_series = EmptyMap /\ all_series = EmptyMap
    /\ nlocal = 0 /\ nupload = 0 /\ sources = <<>>
    /\ headlines = <<>> /\ removed = {} /\ to_display = <<>>
    /\ RateIdle

\* lines 499-520, a run of the script in which no delete button is pressed:
\* the first run of the session, the run after st.experimental_rerun(), a
\* run started by another widget.  The feed may also fail: no headlines.
RenderHeadlines ==
    /\ pc \in {"run", "shown"}
    /\ \E feed \in Feeds :
         /\ headlines' = fetch_gmk_headlines(feed, limit)
         /\ to_display' = Displayed(fetch_gmk_headlines(feed, limit), removed)
    /\ pc' = "shown"
    /\ UNCHANGED <<removed, seriesvars, ratevars>>

\* lines 499-520, the run started by pressing the delete button of a
\* headline on the page: the button is True only if this run writes it again
PressDelete ==
    /\ pc = "shown"
    /\ Cardinality(removed) < MaxRemovals
    /\ \E k \in 1..Len(to_display), feed \in Feeds :
         LET hs  == fetch_gmk_headlines(feed, limit)
             now == Displayed(hs, removed)
         IN  /\ headlines' = hs
             /\ IF to_display[k].link \in Links(now)
                THEN /\ removed' = removed \cup {to_display[k].link}
                     /\ to_display' = UpTo(now, to_display[k].link)
                     /\ pc' = "run"
                ELSE /\ removed' = removed
                     /\ to_display' = now
                     /\ pc' = "shown"
    /\ UNCHANGED <<seriesvars, ratevars>>

NextNews == RenderHeadlines \/ PressDelete

SpecNews == InitNews /\ [][NextNews]_vars

\* ------------------------------------------- the exchange rate in a render
InitRate ==
    /\ pc = "rate"
    /\ df = NoSheet(FileName)
    /\ file_series = EmptyMap
    /\ raised = FALSE
    /\ local_series = EmptyMap /\ uploaded_series = EmptyMap /\ all_series = EmptyMap
    /\ nlocal = 0 /\ nupload = 0 /\ sources = <<>>
    /\ headlines = <<>> /\ removed = {} /\ to_display = <<>>
    /\ response \in Responses
    /\ eur_usd = 0 /\ rate_date = <<>> /\ warned = FALSE /\ price_usd = <<>>

\* line 429
FetchRate ==
    /\ pc = "rate"
    /\ pc' = "rate_fetched"
    /\ eur_usd' = fetch_exchange_rate(response).rate
    /\ rate_date' = fetch_exchange_rate(response).date
    /\ UNCHANGED <<response, warned, price_usd, seriesvars, newsvars>>

\* lines 430-456: the rate line, the warning and the price table
ShowRate ==
    /\ pc = "rate_fetched"
    /\ pc' = "rate_shown"
    /\ warned' = (rate_date = <<>>)
    /\ price_usd' = assemble_latest_prices(eur_usd)
    /\ UNCHANGED <<response, eur_usd, rate_date, seriesvars, newsvars>>

NextRate == FetchRate \/ ShowRate

SpecRate == InitRate /\ [][NextRate]_vars

\* ------------------------------------------------- the layout, read directly
\* The complete triples of a sheet, the name the layout gives to a triple
\* (the nearest non-blank cell at or above row R-1 of its first column,
\* trimmed; empty when there is none) and the rows it should yield.
Triples(d) == 1..((d.ncols - 1) \div TripleWidth)

FirstCol(g) == 1 + TripleWidth * (g - 1)

NamedRows(d, R, g) == {r \in 0..(R - 1) : ~isna(iat(d, r, FirstCol(g)))}

LayoutName(d, R, g) ==
    IF NamedRows(d, R, g) = {} THEN <<>>
    ELSE LET top == CHOOSE r \in NamedRows(d, R, g) : \A q \in NamedRows(d, R, g) : q <= r
         IN  strip(PyStr(iat(d, top, FirstCol(g))))

RowParses(d, r, c) == ~isna(to_datetime(iat(d, r, 0))) /\ ~isna(to_numeric(iat(d, r, c)))

RECURSIVE LayoutRows(_, _, _)
LayoutRows(d, r, c) ==
    IF r >= d.nrows THEN <<>>
    ELSE (IF RowParses(d, r, c)
          THEN <<[Date |-> to_datetime(iat(d, r, 0)).n, Price |-> to_numeric(iat(d, r, c)).n]>>
          ELSE <<>>) \o LayoutRows(d, r + 1, c)

\* C1: a readable sheet without a "Dates" row in column 0 gives an empty
\* mapping and no exception reaches the caller, whatever the sheet's shape.
C1_NoMarkerGivesEmpty ==
    (pc = "local" /\ df.readable /\ ~HasMarker(df))
        => (file_series = EmptyMap /\ ~raised)

\* C2: every emitted series has a non-empty name and at least one row.
C2_EmittedSeriesNonEmpty ==
    (pc = "local")
        => \A name \in DOMAIN file_series : name # <<>> /\ Len(file_series[name]) >= 1

AllNamed(d) ==
    /\ HasMarker(d)
    /\ Triples(d) # {}
    /\ \A g \in Triples(d) : LayoutName(d, FirstMarker(d), g) # <<>>

DistinctNames(d) ==
    \A g, h \in Triples(d) :
        g # h => LayoutName(d, FirstMarker(d), g) # LayoutName(d, FirstMarker(d), h)

EachTripleExtracted(d, fs) ==
    /\ Cardinality(DOMAIN fs) = Cardinality(Triples(d))
    /\ \A g \in Triples(d) :
          /\ LayoutName(d, FirstMarker(d), g) \in DOMAIN fs
          /\ fs[LayoutName(d, FirstMarker(d), g)]
                = LayoutRows(d, FirstMarker(d) + 1, FirstCol(g) + 2)

\* C3 as stated: N named triples give N series, each holding exactly the
\* rows below the marker whose date and Avg cell both parse.
C3_NamedTriplesGiveSeries ==
    (pc = "local" /\ AllNamed(df)) => (~raised /\ EachTripleExtracted(df, file_series))

\* C3, amended: N triples with pairwise distinct names give N series, each
\* holding exactly the rows below the marker whose date and Avg cell both
\* parse; a row is dropped only from the triples where it does not parse.
C3_DistinctTriplesGiveSeries ==
    (pc = "local" /\ AllNamed(df) /\ DistinctNames(df))
        => (~raised /\ EachTripleExtracted(df, file_series))

C3_Witness ==
    /\ pc = "local" /\ AllNamed(df) /\ DistinctNames(df)
    /\ Cardinality(Triples(df)) = 2
    /\ \E r \in (FirstMarker(df) + 1)..(df.nrows - 1) :
          RowParses(df, r, FirstCol(2) + 2) /\ ~RowParses(df, r, FirstCol(1) + 2)
    /\ Len(file_series[LayoutName(df, FirstMarker(df), 2)]) = 1
    /\ Len(file_series[LayoutName(df, FirstMarker(df), 1)]) = 0

\* C6: with the marker at row R, the emitted names are exactly the layout
\* names of the triples that have one; a triple without a name above it is
\* skipped, the others are extracted, nothing is raised, for every R >= 0.
C6_NameResolution ==
    (pc = "local" /\ HasMarker(df))
        => /\ ~raised
           /\ DOMAIN file_series =
                 {LayoutName(df, FirstMarker(df), g) : g \in Triples(df)} \ {<<>>}

\* C6 restricted to sheets whose marker is not the first row
C6_NameResolutionBelowTop ==
    (HasMarker(df) /\ FirstMarker(df) >= 1) => C6_NameResolution

\* C8 as stated: a sheet with a marker and fewer than 3 columns after
\* column 0 contributes no series, from the directory or as an upload.
C8_NarrowSheetGivesEmpty ==
    (pc \in {"local", "upload"} /\ HasMarker(df) /\ df.ncols - 1 < TripleWidth)
        => (file_series = EmptyMap /\ ~raised)

\* C8, amended: such a sheet contributes nothing when read from the
\* directory; as an upload with at least one column after column 0 it
\* contributes one series, named after the file, of the rows whose date and
\* column-1 cell both parse, and nothing when column 0 is its only column.
C8_NarrowSheetFallsBack ==
    (pc \in {"local", "upload"} /\ HasMarker(df) /\ df.ncols - 1 < TripleWidth)
        => /\ ~raised
           /\ IF pc = "upload" /\ df.ncols >= 2
              THEN /\ DOMAIN file_series = {df.name}
                   /\ file_series[df.name] = LayoutRows(df, FirstMarker(df) + 1, 1)
              ELSE file_series = EmptyMap

C8_Witness ==
    /\ pc = "upload" /\ HasMarker(df) /\ df.ncols = 3
    /\ df.name \in DOMAIN file_series
    /\ Len(file_series[df.name]) >= 1

\* ------------------------------------------------ the sources of a series
Contrib(name) == {i \in 1..Len(sources) : name \in DOMAIN sources[i]}

DatesOf(sq) == {sq[i].Date : i \in 1..Len(sq)}

PricesAt(sq, d) == {sq[i].Price : i \in {j \in 1..Len(sq) : sq[j].Date = d}}

SourceDates(name) == UNION {DatesOf(sources[i][name]) : i \in Contrib(name)}

LastWith(name, d) ==
    CHOOSE i \in Contrib(name) :
        /\ d \in DatesOf(sources[i][name])
        /\ \A j \in Contrib(name) : d \in DatesOf(sources[j][name]) => j <= i

UniqueDates(sq) == \A i, j \in 1..Len(sq) : i # j => sq[i].Date # sq[j].Date

Ascending(sq) == \A i, j \in 1..Len(sq) : i < j => sq[i].Date <= sq[j].Date

\* C4: a series merged from two or more sources holds one row per date of
\* any of them, the price of the last-merged source that has the date
\* (uploads after the files of data/), in ascending order of date.
C4_MergeLastWins ==
    (pc = "chart")
        => /\ DOMAIN all_series = UNION {DOMAIN sources[i] : i \in 1..Len(sources)}
           /\ \A name \in DOMAIN all_series :
                 Cardinality(Contrib(name)) >= 2
                    => /\ UniqueDates(all_series[name])
                       /\ DatesOf(all_series[name]) = SourceDates(name)
                       /\ Ascending(all_series[name])
                       /\ \A i \in 1..Len(all_series[name]) :
                             all_series[name][i].Price \in
                                PricesAt(sources[LastWith(name, all_series[name][i].Date)][name],
                                         all_series[name][i].Date)

C4_Witness ==
    /\ pc = "chart" /\ nlocal = 2 /\ nupload = 2
    /\ \E name \in DOMAIN all_series :
          /\ Cardinality(Contrib(name)) = 4
          /\ \E i \in Contrib(name) : Len(sources[i][name]) = 2
          /\ Len(all_series[name]) = 2
          /\ all_series[name][1].Price < all_series[name][2].Price - 1

\* C5: every series handed to the charts is in ascending order of date and
\* has no date twice, whatever the number of sources behind it.
C5_ChartSeriesUniqueDates ==
    (pc = "chart")
        => \A name \in DOMAIN all_series :
              Ascending(all_series[name]) /\ UniqueDates(all_series[name])

\* C7: a file that cannot be opened or has no "Price Series" sheet yields an
\* empty mapping, raises nothing, and leaves the accumulated series as they
\* were.
C7_UnreadableFileSkipped ==
    [][(~df'.readable /\ (nlocal' # nlocal \/ nupload' # nupload))
          => /\ file_series' = EmptyMap
             /\ ~raised' /\ pc' = pc
             /\ local_series' = local_series
             /\ uploaded_series' = uploaded_series]_vars

C7_Witness ==
    /\ pc = "load_uploaded" /\ nlocal = 2 /\ nupload = 2
    /\ ~df.readable
    /\ DOMAIN local_series # {} /\ DOMAIN uploaded_series # {}
    /\ Len(sources) = 4 /\ sources[2] = EmptyMap /\ sources[4] = EmptyMap

Unremoved == {i \in 1..Len(headlines) : headlines[i].link \notin removed}

KthUnremoved(k) ==
    CHOOSE i \in Unremoved : Cardinality({j \in Unremoved : j <= i}) = k

\* C10: a completed run shows the first 20 fetched headlines that have not
\* been removed, in feed order: 20 of them as long as 20 remain, refilled
\* from the later articles after a removal.
C10_FirstTwentyUnremoved ==
    (pc = "shown")
        => /\ Len(to_display) =
                 (IF Cardinality(Unremoved) < display_count
                  THEN Cardinality(Unremoved) ELSE display_count)
           /\ \A k \in 1..Len(to_display) : to_display[k] = headlines[KthUnremoved(k)]

C10_Witness ==
    /\ pc = "shown"
    /\ Cardinality(removed) = 2
    /\ removed \subseteq Links(FirstItems(headlines, display_count))
    /\ Len(to_display) = display_count
    /\ to_display[display_count] = headlines[display_count + 2]

\* The call has failed: no response, an HTTP error status, or a body that is
\* not the documented one (a JSON object with a numeric rates["USD"] and a
\* time_last_update_utc of the form "Thu, 07 Aug 2025 00:03:03 +0000").
BodyMalformed(body) ==
    \/ ~body.json \/ ~body.object \/ ~body.has_rates
    \/ ~body.usd_present \/ ~FloatOk(body.usd)
    \/ ~body.has_time \/ body.time.t # "str"
    \/ body.time.s \notin {GoodTime}

CallFailed(resp) ==
    resp.net = "error" \/ resp.status >= 400 \/ BodyMalformed(resp.body)

FellBack ==
    /\ eur_usd = FallbackRate /\ rate_date = <<>>
    /\ warned
    /\ price_usd = [i \in 1..Len(EurPrices) |-> EurPrices[i] * FallbackRate]

\* C11: when the exchange-rate call fails (no response, HTTP error status,
\* malformed body) the render has the pair (1.0, ""), shows the fallback
\* warning and converts the price table at 1.00.
C11_FailedCallFallsBack ==
    (pc = "rate_shown" /\ CallFailed(response)) => FellBack

\* C11 for the failures that stop the outer try: no response, an HTTP error
\* status, a body that is not a JSON object with rates, a rate that is not a
\* number
C11_ExceptionFallsBack ==
    (pc = "rate_shown" /\ ~NoException(response)) => FellBack

====
